---- MODULE Spec2Model ----
(***************************************************************************)
(* SmartRover mining dashboard (MiningDashboard React component), with the  *)
(* /api/vehicle-data route module and the map canvas.                      *)
(*                                                                         *)
(* The component's state is its useState cells and the three localStorage  *)
(* keys.  Every event handler runs to completion on the render it was      *)
(* created in; an async handler is split at its await: the continuation    *)
(* keeps the values its closure captured when the handler was called.      *)
(*                                                                         *)
(* Strings are TLA+ strings (Len, SubSeq and \o act on them as on          *)
(* sequences of characters).  null / undefined / a missing localStorage    *)
(* key is the empty tuple None, a present value x is the 1-tuple <<x>>.    *)
(*                                                                         *)
(* Not modelled: logs, waypoints, miningSessions, isBluetoothConnected,    *)
(* showPassword and the dialog flags.  They are written by handlers and    *)
(* read by the JSX only; no modelled handler reads them.  The requests     *)
(* that fill them are recorded when a poll tick issues them.               *)
(***************************************************************************)
EXTENDS Integers, Sequences, FiniteSets, TLC

\* ------------------------------------------------------------------ bounds
\* Date.now() ranges over 1..MaxClock
MaxClock == 2
\* the registry holds at most MaxVehicles entries
MaxVehicles == 2
\* connect probes awaiting their response at the same time
MaxProbes == 2
\* poll cycles with a response outstanding at the same time
MaxCycles == 1
\* payloads the route stores and answers with success
MaxPosts == 1002
\* control commands awaiting their response at the same time
MaxCommands == 1
\* the canvas is CanvasWidth x CanvasHeight pixels (400 x 300 in the JSX)
CanvasWidth == 2
CanvasHeight == 2
\* a JSON null body arrives among the first MaxNullWindow requests only
MaxNullWindow == 2
\* scanForVehicles calls running at the same time
MaxScans == 1
\* a scan goes through the first MaxScanIPs host numbers (20 in the code)
MaxScanIPs == 1

VARIABLES
  now,              \* the value Date.now() returns
  stUser,           \* localStorage[smartrover_user]
  stVehicles,       \* localStorage[smartrover_vehicles]
  stActive,         \* localStorage[smartrover_active_vehicle]
  isAuthenticated, user, showLogin,
  vehicles, activeVehicle,
  vehicleData, systemInfo, isConnected, isLoading, activeTab,
  effIsConnected,   \* isConnected as captured by the interval callback's closure
  probes,           \* connectToVehicle calls awaiting safeFetch
  polls,            \* fetchVehicleData / fetchSystemInfo calls awaiting safeFetch
  last,             \* the handler that ran last, with its arguments (history)
  latestVehicleData, \* the route module's `let latestVehicleData`
  dataHistory,       \* the route module's `const dataHistory`
  apiResponse,       \* the response the route handler returned last
  posted,            \* number of payloads POST has stored (history)
  commands,          \* sendVehicleCommand / sendMiningCommand calls awaiting fetch
  mapRegion,         \* vehicleData.map_data.map_region
  canvas,            \* the pixels of the map canvas, by pixel index from 0
  drawn,             \* how the last drawMap call ended (history)
  isScanning,        \* useState cell
  scanProgress,      \* useState cell: the pair <<n, d>> is the number n / d
  scans,             \* scanForVehicles calls awaiting a response
  running,           \* the backend services that are running on the host
  pidFiles,          \* the services with a file in /var/run/smartrover
  testing,           \* the run of start_backend_testing.sh: where it is
  quick              \* the run of the quick backend test script

vars == <<now, stUser, stVehicles, stActive, isAuthenticated, user, showLogin,
          vehicles, activeVehicle, vehicleData, systemInfo, isConnected,
          isLoading, activeTab, effIsConnected, probes, polls, last,
          latestVehicleData, dataHistory, apiResponse, posted, commands,
          mapRegion, canvas, drawn, isScanning, scanProgress, scans,
          running, pidFiles, testing, quick>>

\* the state of the /api/vehicle-data route module
apiVars == <<latestVehicleData, dataHistory, apiResponse, posted>>

\* the state of the dashboard component and of the browser
dashVars == <<now, stUser, stVehicles, stActive, isAuthenticated, user,
              showLogin, vehicles, activeVehicle, vehicleData, systemInfo,
              isConnected, isLoading, activeTab, effIsConnected, probes,
              polls, last>>

\* what the handlers of the first dashboard sections leave alone
\* the map and its canvas
mapVars == <<mapRegion, canvas, drawn>>

\* the discovery scan
scanVars == <<isScanning, scanProgress, scans>>

\* the host of the backend and the two test scripts
shellVars == <<running, pidFiles, testing, quick>>

extVars == <<apiVars, commands, mapVars, scanVars, shellVars>>

None == <<>>
Some(x) == <<x>>

\* ----------------------------------------------------------------- strings
startsWith(s, p) == Len(s) >= Len(p) /\ SubSeq(s, 1, Len(p)) = p

UpperChars == "ABCDEFGHIJKLMNOPQRSTUVWXYZ"
LowerChars == "abcdefghijklmnopqrstuvwxyz"

\* String.prototype.toLowerCase on one character
upperToLower ==
  [c \in {SubSeq(UpperChars, i, i) : i \in 1..Len(UpperChars)} |->
     LET i == CHOOSE i \in 1..Len(UpperChars) : SubSeq(UpperChars, i, i) = c
     IN  SubSeq(LowerChars, i, i)]

toLowerChar(c) == IF c \in DOMAIN upperToLower THEN upperToLower[c] ELSE c

RECURSIVE toLowerCase(_)
toLowerCase(s) ==
  IF Len(s) = 0 THEN ""
  ELSE toLowerChar(SubSeq(s, 1, 1)) \o toLowerCase(SubSeq(s, 2, Len(s)))

isSpace(c) == c \in {" ", "\t", "\n", "\r"}

RECURSIVE trimStart(_)
trimStart(s) ==
  IF Len(s) > 0 /\ isSpace(SubSeq(s, 1, 1)) THEN trimStart(SubSeq(s, 2, Len(s))) ELSE s

RECURSIVE trimEnd(_)
trimEnd(s) ==
  IF Len(s) > 0 /\ isSpace(SubSeq(s, Len(s), Len(s)))
  THEN trimEnd(SubSeq(s, 1, Len(s) - 1)) ELSE s

\* String.prototype.trim
trim(s) == trimEnd(trimStart(s))

\* ------------------------------------------------------------- safeFetch
\* What the network does to one request.
Outcomes == {"network_error", "timeout", "non_2xx",
             "success_false", "success_missing", "success_null",
             "success_zero", "success_true"}

safeFetchIgnoresStatus(outcome) ==
  IF outcome \in {"network_error", "timeout"} THEN None
  ELSE IF outcome = "success_false" THEN None
  ELSE Some(outcome)

\* safeFetch: null on a throw (network error, abort after 5 s, !res.ok) and
\* on a body whose success is === false; the parsed body otherwise.
safeFetch(outcome) ==
  IF outcome \in {"network_error", "timeout", "non_2xx"} THEN None
  ELSE IF outcome = "success_false" THEN None
  ELSE Some(outcome)

\* the callers' test `response?.success`
responseSuccess(response) == response # None /\ response[1] = "success_true"

\* ------------------------------------------------------------ credentials
VALID_USERS ==
  [e \in {"cvlised360@gmail.com", "admin@smartrover.com", "operator@smartrover.com"} |->
     CASE e = "cvlised360@gmail.com" -> "Cvlised@360"
       [] e = "admin@smartrover.com" -> "admin123"
       [] e = "operator@smartrover.com" -> "operator123"]

\* what the user can type into the login form
LoginEmails == {"admin@smartrover.com", " Admin@SmartRover.COM ",
                "operator@smartrover.com", "nobody@smartrover.com", ""}
LoginPasswords == {"admin123", "Admin123", "operator123", ""}

\* what the user can type into the add-vehicle form
VehicleNames == {"", "Rover"}
VehicleUrls == {"", "pi:5000", "http://pi:5000", "https://pi:5000"}

Tabs == {"vehicles", "dashboard", "mining", "control", "system", "logs"}

\* ---------------------------------------------------------------- Init
\* First visit: empty localStorage, useState defaults, and the mount effect
\* has found no saved user and opened the login prompt.
InitApp ==
  /\ now = 1
  /\ stUser = None /\ stVehicles = None /\ stActive = None
  /\ isAuthenticated = FALSE /\ user = None /\ showLogin = TRUE
  /\ vehicles = <<>> /\ activeVehicle = None
  /\ vehicleData = None /\ systemInfo = None
  /\ isConnected = FALSE /\ isLoading = FALSE
  /\ activeTab = "vehicles"
  /\ effIsConnected = FALSE
  /\ probes = {} /\ polls = {}
  /\ last = [op |-> "init"]
  /\ latestVehicleData = None /\ dataHistory = <<>>
  /\ apiResponse = [op |-> "none"] /\ posted = 0
  /\ commands = {}
  /\ isScanning = FALSE /\ scanProgress = <<0, 1>> /\ scans = {}
  /\ running = {} /\ pidFiles = {}
  /\ testing = [pc |-> "idle", mode |-> "", did |-> ""]
  /\ quick = [pc |-> "idle", exported |-> FALSE, next |-> 1, TOTAL_TESTS |-> 0,
              PASSED_TESTS |-> 0, FAILED_TESTS |-> 0, summary |-> FALSE,
              status |-> None, result |-> ""]

\* a canvas nothing was drawn on: transparent black
blankCanvas == [k \in 0..(CanvasWidth * CanvasHeight - 1) |-> <<0, 0, 0, 0>>]

Init ==
  /\ InitApp
  /\ mapRegion = None /\ canvas = blankCanvas /\ drawn = "none"

\* The polling effect re-runs, and its callback captures the isConnected of
\* the new render, when a dependency changed (activeVehicle by identity:
\* `fresh` says the handler stored a new object).
Recapture(fresh) ==
  effIsConnected' =
    IF fresh \/ activeVehicle' # activeVehicle
             \/ isAuthenticated' # isAuthenticated
             \/ activeTab' # activeTab
    THEN isConnected' ELSE effIsConnected

\* the system clock moves on
ClockTick ==
  /\ now < MaxClock
  /\ now' = now + 1
  /\ UNCHANGED <<stUser, stVehicles, stActive, isAuthenticated, user, showLogin,
                 vehicles, activeVehicle, vehicleData, systemInfo, isConnected,
                 isLoading, activeTab, effIsConnected, probes, polls, last>>
  /\ UNCHANGED extVars

\* the vehicle list and active vehicle as loadVehicles leaves them
loadedVehicles(cur) == IF stVehicles # None THEN stVehicles[1] ELSE cur
loadedActive(cur) == IF stActive # None THEN Some(stActive[1]) ELSE cur

saveVehicles(vehicleList) ==
  /\ stVehicles' = Some(vehicleList)
  /\ vehicles' = vehicleList

\* ------------------------------------------------------------ session / auth
\* Page load: every useState cell is back at its default, requests and timers
\* of the previous page are gone, and the mount effect restores a saved
\* session (and then the saved registry) or opens the login prompt.
Mount ==
  /\ isLoading' = FALSE /\ isConnected' = FALSE
  /\ vehicleData' = None /\ systemInfo' = None
  /\ activeTab' = "vehicles"
  /\ probes' = {} /\ polls' = {}
  /\ IF stUser # None
     THEN /\ user' = Some(stUser[1])
          /\ isAuthenticated' = TRUE
          /\ showLogin' = FALSE
          /\ vehicles' = loadedVehicles(<<>>)
          /\ activeVehicle' = loadedActive(None)
     ELSE /\ user' = None
          /\ isAuthenticated' = FALSE
          /\ showLogin' = TRUE
          /\ vehicles' = <<>>
          /\ activeVehicle' = None
  /\ effIsConnected' = FALSE
  /\ last' = [op |-> "mount"]
  /\ UNCHANGED <<now, stUser, stVehicles, stActive>>
  /\ UNCHANGED apiVars
  /\ commands' = {}
  /\ mapRegion' = None /\ canvas' = blankCanvas /\ drawn' = "none"
  /\ isScanning' = FALSE /\ scanProgress' = <<0, 1>> /\ scans' = {}
  /\ UNCHANGED shellVars

\* `loginForm.email.toLowerCase().trim()`
loginEmailNoLowerCase(formEmail) == trim(formEmail)

loginEmail(formEmail) == trim(toLowerCase(formEmail))

\* the `email` constant of handleLogin for each input of LoginEmails
typedEmail == [formEmail \in LoginEmails |-> loginEmail(formEmail)]

\* `VALID_USERS[email] === password`; a missing key reads undefined, which
\* is === to no string
credentialsValid(email, password) ==
  email \in DOMAIN VALID_USERS /\ VALID_USERS[email] = password

\* The login form is rendered while !isAuthenticated and the dialog is open;
\* its submit button is disabled while isLoading.
signInDisabledNever == FALSE

\* the Sign In button: `disabled={isLoading}`
signInDisabled == isLoading

handleLogin(formEmail, formPassword) ==
  /\ ~isAuthenticated /\ showLogin /\ ~signInDisabled
  /\ LET email == typedEmail[formEmail] IN
     IF credentialsValid(email, formPassword)
     THEN /\ stUser' = Some([email |-> email, loginTime |-> now])
          /\ user' = Some([email |-> email, loginTime |-> now])
          /\ isAuthenticated' = TRUE
          /\ showLogin' = FALSE
          /\ vehicles' = loadedVehicles(vehicles)
          /\ activeVehicle' = loadedActive(activeVehicle)
     ELSE UNCHANGED <<stUser, user, isAuthenticated, showLogin, vehicles,
                      activeVehicle>>
  /\ isLoading' = FALSE
  /\ last' = [op |-> "login", email |-> formEmail, password |-> formPassword,
              at |-> now]
  /\ UNCHANGED <<now, stVehicles, stActive, vehicleData, systemInfo, isConnected,
                 activeTab, probes, polls>>
  /\ Recapture(stActive # None /\ credentialsValid(typedEmail[formEmail], formPassword))
  /\ UNCHANGED extVars

handleLogoutKeepsActiveKey ==
  /\ isAuthenticated
  /\ stUser' = None
  /\ isAuthenticated' = FALSE
  /\ user' = None
  /\ activeVehicle' = None
  /\ vehicleData' = None
  /\ systemInfo' = None
  /\ isConnected' = FALSE
  /\ showLogin' = TRUE
  /\ last' = [op |-> "logout", active |-> activeVehicle # None,
              data |-> vehicleData # None]
  /\ UNCHANGED <<now, stActive, stVehicles, vehicles, isLoading, activeTab, probes, polls>>
  /\ Recapture(FALSE)
  /\ UNCHANGED extVars

handleLogout ==
  /\ isAuthenticated
  /\ stUser' = None
  /\ stActive' = None
  /\ isAuthenticated' = FALSE
  /\ user' = None
  /\ activeVehicle' = None
  /\ vehicleData' = None
  /\ systemInfo' = None
  /\ isConnected' = FALSE
  /\ showLogin' = TRUE
  /\ last' = [op |-> "logout", active |-> activeVehicle # None,
              data |-> vehicleData # None]
  /\ UNCHANGED <<now, stVehicles, vehicles, isLoading, activeTab, probes, polls>>
  /\ Recapture(FALSE)
  /\ UNCHANGED extVars

\* ------------------------------------------------------------ vehicle registry
\* vehicles.map((v) => (v.id === id ? { ...v, status } : v))
mapStatus(list, id, status) ==
  [i \in 1..Len(list) |->
     IF list[i].id = id THEN [list[i] EXCEPT !.status = status] ELSE list[i]]

\* vehicles.filter((v) => v.id !== vehicleId)
filterOut(list, vehicleId) == SelectSeq(list, LAMBDA v : v.id # vehicleId)

\* "Ensure URL has protocol"
ensureProtocolHttpOnly(url) ==
  IF ~startsWith(url, "http://") THEN "http://" \o url ELSE url

ensureProtocol(url) ==
  IF ~startsWith(url, "http://") /\ ~startsWith(url, "https://")
  THEN "http://" \o url ELSE url

\* `!newVehicleForm.name || !newVehicleForm.url`
formIncompleteNameOnly(name, url) == name = ""

formIncomplete(name, url) == name = "" \/ url = ""

\* The Add Vehicle dialog's button, on a form holding (name, url).
addVehicle(name, url) ==
  /\ isAuthenticated
  /\ IF formIncomplete(name, url)
     THEN UNCHANGED <<stVehicles, vehicles>>
     ELSE /\ Len(vehicles) < MaxVehicles
          /\ saveVehicles(Append(vehicles,
               [id |-> ToString(now), name |-> name, url |-> ensureProtocol(url),
                status |-> "disconnected", lastSeen |-> 0, type |-> "manual"]))
  /\ last' = [op |-> "addVehicle", name |-> name, url |-> url]
  /\ UNCHANGED <<now, stUser, stActive, isAuthenticated, user, showLogin,
                 activeVehicle, vehicleData, systemInfo, isConnected, isLoading,
                 activeTab, effIsConnected, probes, polls>>
  /\ UNCHANGED extVars

\* the vehicle cards are rendered on the vehicles tab of the signed-in view
cardsShown == isAuthenticated /\ activeTab = "vehicles"

removeVehicleKeepsPointer(vehicleId) ==
  /\ cardsShown
  /\ \E i \in 1..Len(vehicles) : vehicles[i].id = vehicleId
  /\ saveVehicles(filterOut(vehicles, vehicleId))
  /\ UNCHANGED <<activeVehicle, stActive, effIsConnected>>
  /\ last' = [op |-> "removeVehicle", id |-> vehicleId,
              active |-> (activeVehicle # None /\ activeVehicle[1].id = vehicleId)]
  /\ UNCHANGED <<now, stUser, isAuthenticated, user, showLogin, vehicleData,
                 systemInfo, isConnected, isLoading, activeTab, probes, polls>>
  /\ UNCHANGED extVars

\* the trash button of the card of vehicleId
removeVehicle(vehicleId) ==
  /\ cardsShown
  /\ \E i \in 1..Len(vehicles) : vehicles[i].id = vehicleId
  /\ saveVehicles(filterOut(vehicles, vehicleId))
  /\ IF activeVehicle # None /\ activeVehicle[1].id = vehicleId
     THEN /\ activeVehicle' = None
          /\ stActive' = None
     ELSE UNCHANGED <<activeVehicle, stActive>>
  /\ last' = [op |-> "removeVehicle", id |-> vehicleId,
              active |-> (activeVehicle # None /\ activeVehicle[1].id = vehicleId)]
  /\ UNCHANGED <<now, stUser, isAuthenticated, user, showLogin, vehicleData,
                 systemInfo, isConnected, isLoading, activeTab, probes, polls>>
  /\ Recapture(FALSE)
  /\ UNCHANGED extVars

\* the card shows Disconnect instead of Connect
showsDisconnect(vehicle) ==
  vehicle.status = "connected" /\ activeVehicle # None /\ activeVehicle[1].id = vehicle.id

\* { ...vehicle, status: "connected", lastSeen: Date.now() }
connectedVehicleOf(vehicle) == [vehicle EXCEPT !.status = "connected", !.lastSeen = now]

\* vehicles.map((v) => v.id === vehicle.id ? connectedVehicle : { ...v, status: "disconnected" })
finalVehicles(list, vehicle) ==
  [i \in 1..Len(list) |->
     IF list[i].id = vehicle.id THEN connectedVehicleOf(vehicle)
     ELSE [list[i] EXCEPT !.status = "disconnected"]]

failedVehiclesResetsAll(list, vehicle) ==
  [i \in 1..Len(list) |-> [list[i] EXCEPT !.status = "disconnected"]]

\* vehicles.map((v) => (v.id === vehicle.id ? { ...v, status: "disconnected" } : v))
failedVehicles(list, vehicle) == mapStatus(list, vehicle.id, "disconnected")

\* Up to the await: the Connect button of a card.  The continuation keeps
\* `vehicle` and the `vehicles` of the render the button belonged to.
connectToVehicle(vehicle) ==
  /\ cardsShown
  /\ \E i \in 1..Len(vehicles) : vehicles[i] = vehicle
  /\ ~showsDisconnect(vehicle)
  /\ vehicle.status # "connecting" /\ ~isLoading
  /\ Cardinality(probes) < MaxProbes
  /\ isLoading' = TRUE
  /\ saveVehicles(mapStatus(vehicles, vehicle.id, "connecting"))
  /\ LET pid == CHOOSE n \in 1..MaxProbes : \A q \in probes : q.pid # n IN
     /\ probes' = probes \cup {[pid |-> pid, vehicle |-> vehicle, vehicles |-> vehicles]}
     /\ last' = [op |-> "connectToVehicle", id |-> vehicle.id, pid |-> pid]
  /\ UNCHANGED <<now, stUser, stActive, isAuthenticated, user, showLogin,
                 activeVehicle, vehicleData, systemInfo, isConnected, activeTab,
                 effIsConnected, polls>>
  /\ UNCHANGED extVars

\* From the await on: the probe of call p ended with `outcome`.
connectResponse(p, outcome) ==
  /\ p \in probes
  /\ probes' = probes \ {p}
  /\ IF responseSuccess(safeFetch(outcome))
     THEN /\ saveVehicles(finalVehicles(p.vehicles, p.vehicle))
          /\ activeVehicle' = Some(connectedVehicleOf(p.vehicle))
          /\ stActive' = Some(connectedVehicleOf(p.vehicle))
          /\ isConnected' = TRUE
          /\ activeTab' = "dashboard"
     ELSE /\ saveVehicles(failedVehicles(p.vehicles, p.vehicle))
          /\ UNCHANGED <<activeVehicle, stActive, isConnected, activeTab>>
  /\ isLoading' = FALSE
  /\ last' = [op |-> "connectResponse", id |-> p.vehicle.id, pid |-> p.pid,
              ok |-> responseSuccess(safeFetch(outcome)),
              outcome |-> outcome, response |-> safeFetch(outcome)]
  /\ UNCHANGED <<now, stUser, isAuthenticated, user, showLogin, vehicleData,
                 systemInfo, polls>>
  /\ Recapture(responseSuccess(safeFetch(outcome)))
  /\ UNCHANGED extVars

\* the Disconnect button, shown on the card of the connected active vehicle
disconnectFromVehicle ==
  /\ cardsShown
  /\ \E i \in 1..Len(vehicles) : showsDisconnect(vehicles[i])
  /\ IF activeVehicle # None
     THEN saveVehicles(mapStatus(vehicles, activeVehicle[1].id, "disconnected"))
     ELSE UNCHANGED <<stVehicles, vehicles>>
  /\ activeVehicle' = None
  /\ isConnected' = FALSE
  /\ vehicleData' = None
  /\ systemInfo' = None
  /\ stActive' = None
  /\ activeTab' = "vehicles"
  /\ last' = [op |-> "disconnectFromVehicle"]
  /\ UNCHANGED <<now, stUser, isAuthenticated, user, showLogin, isLoading,
                 probes, polls>>
  /\ Recapture(FALSE)
  /\ UNCHANGED extVars

\* a tab trigger; all but "vehicles" are disabled while there is no active vehicle
selectTab(tab) ==
  /\ isAuthenticated
  /\ tab # activeTab
  /\ tab = "vehicles" \/ activeVehicle # None
  /\ activeTab' = tab
  /\ last' = [op |-> "selectTab", tab |-> tab]
  /\ UNCHANGED <<now, stUser, stVehicles, stActive, isAuthenticated, user,
                 showLogin, vehicles, activeVehicle, vehicleData, systemInfo,
                 isConnected, isLoading, probes, polls>>
  /\ Recapture(FALSE)
  /\ UNCHANGED extVars

\* ------------------------------------------------------------ discovery scan
\* "Common ports for mining vehicles", the first two of [5000, 8080, 3000, 8000]
ports == <<"5000", "8080">>

\* `20 * ports.length`, over the host numbers the scan goes through
totalScans == MaxScanIPs * Len(ports)

\* what getCurrentNetworkIP resolves to: data.ip of api.ipify.org, or null
NetworkIPs == {None, Some("203.0.113.7")}

\* currentIP.lastIndexOf("."), counted from 1; 0 when there is no dot
lastIndexOfDot(str) ==
  IF \E i \in 1..Len(str) : SubSeq(str, i, i) = "."
  THEN CHOOSE i \in 1..Len(str) :
         /\ SubSeq(str, i, i) = "."
         /\ \A j \in (i + 1)..Len(str) : SubSeq(str, j, j) # "."
  ELSE 0

\* `currentIP ? currentIP.substring(0, currentIP.lastIndexOf(".")) : "192.168.1"`
baseIPOf(currentIP) ==
  IF currentIP # None /\ currentIP[1] # ""
  THEN SubSeq(currentIP[1], 1, lastIndexOfDot(currentIP[1]) - 1)
  ELSE "192.168.1"

\* the host number i and the port of the scanCount-th pair of the two loops
scanHost(scanCount) == ((scanCount - 1) \div Len(ports)) + 1
scanPort(scanCount) == ports[((scanCount - 1) % Len(ports)) + 1]

\* `http://${baseIP}.${i}:${port}`
scanUrl(baseIP, i, port) == "http://" \o baseIP \o "." \o ToString(i) \o ":" \o port

progressOfPairsDone(scanCount) == <<(scanCount - 1) * 100, totalScans>>

\* `(scanCount / totalScans) * 100`
progressOf(scanCount) == <<scanCount * 100, totalScans>>

\* the entry pushed for a host that answered
discoveredVehicle(baseIP, i, port) ==
  [id |-> "discovered_" \o ToString(now) \o "_" \o ToString(i) \o "_" \o port,
   name |-> "SmartRover " \o baseIP \o "." \o ToString(i) \o ":" \o port,
   url |-> scanUrl(baseIP, i, port),
   status |-> "disconnected", lastSeen |-> 0, type |-> "discovered"]

\* `vehicles.find((v) => v.url === url)` gives an entry
findsUrl(list, url) == \E k \in 1..Len(list) : list[k].url = url

\* discoveredVehicles after the answer to the probe of the scanCount-th pair
afterProbe(s, outcome) ==
  LET i == scanHost(s.scanCount)
      port == scanPort(s.scanCount)
  IN  IF responseSuccess(safeFetch(outcome))
         /\ ~findsUrl(s.vehicles, scanUrl(s.baseIP, i, port))
      THEN Append(s.discoveredVehicles, discoveredVehicle(s.baseIP, i, port))
      ELSE s.discoveredVehicles

\* Up to the first await: one of the two Scan Network buttons of the
\* vehicles tab; the one of the empty registry is never disabled.  The
\* continuations keep the `vehicles` of the render the button belonged to.
scanForVehicles ==
  /\ cardsShown
  /\ ~isScanning \/ Len(vehicles) = 0
  /\ Cardinality(scans) < MaxScans
  /\ isScanning' = TRUE
  /\ scanProgress' = <<0, 1>>
  /\ LET sid == CHOOSE n \in 1..MaxScans : \A q \in scans : q.sid # n IN
     /\ scans' = scans \cup {[sid |-> sid, vehicles |-> vehicles, baseIP |-> "",
                              scanCount |-> 0, discoveredVehicles |-> <<>>]}
     /\ last' = [op |-> "scanForVehicles", sid |-> sid]
  /\ UNCHANGED <<now, stUser, stVehicles, stActive, isAuthenticated, user,
                 showLogin, vehicles, activeVehicle, vehicleData, systemInfo,
                 isConnected, isLoading, activeTab, effIsConnected, probes, polls>>
  /\ UNCHANGED <<apiVars, commands, mapVars, shellVars>>

\* getCurrentNetworkIP has resolved: the loops start and the probe of the
\* first pair is sent
networkIPResponse(s, currentIP) ==
  /\ s \in scans /\ s.scanCount = 0
  /\ scans' = (scans \ {s}) \cup
               {[s EXCEPT !.baseIP = baseIPOf(currentIP), !.scanCount = 1]}
  /\ scanProgress' = progressOf(1)
  /\ last' = [op |-> "scanStep", sid |-> s.sid, from |-> 0, outcome |-> "ip",
              ended |-> FALSE, found |-> <<>>]
  /\ UNCHANGED <<now, stUser, stVehicles, stActive, isAuthenticated, user,
                 showLogin, vehicles, activeVehicle, vehicleData, systemInfo,
                 isConnected, isLoading, activeTab, effIsConnected, probes, polls>>
  /\ UNCHANGED <<apiVars, commands, mapVars, shellVars, isScanning>>

\* The probe of the scanCount-th pair has ended with `outcome`: the loops go
\* on to the next pair, or, after the last pair, the scan saves what it
\* found and the finally block runs.
scanProbeResponse(s, outcome) ==
  /\ s \in scans /\ s.scanCount >= 1
  /\ IF s.scanCount < totalScans
     THEN /\ scans' = (scans \ {s}) \cup
                 {[s EXCEPT !.discoveredVehicles = afterProbe(s, outcome),
                            !.scanCount = s.scanCount + 1]}
          /\ scanProgress' = progressOf(s.scanCount + 1)
          /\ UNCHANGED <<stVehicles, vehicles, isScanning>>
     ELSE /\ scans' = scans \ {s}
          /\ IF Len(afterProbe(s, outcome)) > 0
             THEN saveVehicles(s.vehicles \o afterProbe(s, outcome))
             ELSE UNCHANGED <<stVehicles, vehicles>>
          /\ isScanning' = FALSE
          /\ scanProgress' = <<0, 1>>
  /\ last' = [op |-> "scanStep", sid |-> s.sid, from |-> s.scanCount,
              outcome |-> outcome, ended |-> (s.scanCount = totalScans),
              found |-> IF s.scanCount = totalScans
                        THEN afterProbe(s, outcome) ELSE <<>>]
  /\ UNCHANGED <<now, stUser, stActive, isAuthenticated, user, showLogin,
                 activeVehicle, vehicleData, systemInfo, isConnected, isLoading,
                 activeTab, effIsConnected, probes, polls>>
  /\ UNCHANGED <<apiVars, commands, mapVars, shellVars>>

\* ------------------------------------------------------------ telemetry poller
intervalArmedWhileSignedOut ==
  activeVehicle # None /\ activeVehicle[1].status = "connected"

\* the polling effect's condition: while it holds a 2 s interval is armed
intervalArmed ==
  isAuthenticated /\ activeVehicle # None /\ activeVehicle[1].status = "connected"

tickRequestsStatusNeedsConnection(av, connected, tab) ==
  (IF av # None /\ connected THEN {"vehicle-status", "system-info"} ELSE {})
    \cup (IF av # None THEN {"waypoints"} ELSE {})
    \cup (IF tab = "logs" /\ av # None THEN {"logs"} ELSE {})
    \cup (IF tab = "mining" /\ av # None THEN {"mining-sessions"} ELSE {})

tickRequestsLogsAlways(av, connected, tab) ==
  (IF av # None THEN {"vehicle-status", "waypoints", "logs"} ELSE {})
    \cup (IF av # None /\ connected THEN {"system-info"} ELSE {})
    \cup (IF tab = "mining" /\ av # None THEN {"mining-sessions"} ELSE {})

\* The requests one run of the interval callback sends: each fetch* returns
\* early without a request when its guard fails.  av, connected and tab are
\* the activeVehicle, isConnected and activeTab of the callback's closure.
tickRequests(av, connected, tab) ==
  (IF av # None THEN {"vehicle-status"} ELSE {})                       \* fetchVehicleData
    \cup (IF av # None /\ connected THEN {"system-info"} ELSE {})      \* fetchSystemInfo
    \cup (IF av # None THEN {"waypoints"} ELSE {})                     \* fetchWaypoints
    \cup (IF tab = "logs" /\ av # None THEN {"logs"} ELSE {})          \* fetchLogs
    \cup (IF tab = "mining" /\ av # None THEN {"mining-sessions"} ELSE {})

\* One firing of the interval.  The vehicle-status and system-info calls stay
\* in flight, each holding the activeVehicle of its closure.
pollTick ==
  /\ intervalArmed
  /\ \E c \in 1..MaxCycles : \A r \in polls : r.cyc # c
  /\ LET cyc == CHOOSE c \in 1..MaxCycles : \A r \in polls : r.cyc # c
         issued == tickRequests(activeVehicle, effIsConnected, activeTab)
     IN  /\ polls' = polls \cup
                 {[kind |-> k, cyc |-> cyc, av |-> activeVehicle[1]] :
                    k \in issued \cap {"vehicle-status", "system-info"}}
         /\ last' = [op |-> "pollTick", cyc |-> cyc, issued |-> issued,
                     tab |-> activeTab, connected |-> isConnected,
                     closureConnected |-> effIsConnected]
  /\ UNCHANGED <<now, stUser, stVehicles, stActive, isAuthenticated, user,
                 showLogin, vehicles, activeVehicle, vehicleData, systemInfo,
                 isConnected, isLoading, activeTab, effIsConnected, probes>>
  /\ UNCHANGED extVars

\* result.data of a vehicle-status / system-info answer of the vehicle at av.url
snapshotOf(av) == [src |-> av.id, url |-> av.url]

vehicleStatusResponseDropsStale(r, outcome) ==
  /\ r \in polls /\ r.kind = "vehicle-status"
  /\ polls' = polls \ {r}
  /\ IF activeVehicle = None \/ activeVehicle[1].id # r.av.id
     THEN UNCHANGED <<vehicleData, isConnected, activeVehicle, stActive>>
     ELSE IF responseSuccess(safeFetch(outcome))
     THEN /\ vehicleData' = Some(snapshotOf(r.av))
          /\ isConnected' = TRUE
          /\ activeVehicle' = Some([r.av EXCEPT !.lastSeen = now])
          /\ stActive' = Some([r.av EXCEPT !.lastSeen = now])
     ELSE /\ isConnected' = FALSE
          /\ vehicleData' = None
          /\ UNCHANGED <<activeVehicle, stActive>>
  /\ last' = [op |-> "vehicleStatus", cyc |-> r.cyc, id |-> r.av.id,
              ok |-> responseSuccess(safeFetch(outcome)),
              pair |-> (last.op = "systemInfo" /\ last.cyc = r.cyc),
              connected |-> isConnected,
              was |-> IF activeVehicle = None THEN None
                      ELSE Some(activeVehicle[1].id)]
  /\ UNCHANGED <<now, stUser, stVehicles, isAuthenticated, user, showLogin,
                 vehicles, systemInfo, isLoading, activeTab, probes>>
  /\ Recapture(FALSE)
  /\ UNCHANGED extVars

\* fetchVehicleData from its await on
vehicleStatusResponse(r, outcome) ==
  /\ r \in polls /\ r.kind = "vehicle-status"
  /\ polls' = polls \ {r}
  /\ IF responseSuccess(safeFetch(outcome))
     THEN /\ vehicleData' = Some(snapshotOf(r.av))
          /\ isConnected' = TRUE
          /\ activeVehicle' = Some([r.av EXCEPT !.lastSeen = now])
          /\ stActive' = Some([r.av EXCEPT !.lastSeen = now])
     ELSE /\ isConnected' = FALSE
          /\ vehicleData' = None
          /\ UNCHANGED <<activeVehicle, stActive>>
  /\ last' = [op |-> "vehicleStatus", cyc |-> r.cyc, id |-> r.av.id,
              ok |-> responseSuccess(safeFetch(outcome)),
              pair |-> (last.op = "systemInfo" /\ last.cyc = r.cyc),
              connected |-> isConnected,
              was |-> IF activeVehicle = None THEN None
                      ELSE Some(activeVehicle[1].id)]
  /\ UNCHANGED <<now, stUser, stVehicles, isAuthenticated, user, showLogin,
                 vehicles, systemInfo, isLoading, activeTab, probes>>
  /\ Recapture(responseSuccess(safeFetch(outcome)))
  /\ UNCHANGED extVars

systemInfoResponseMarksConnected(r, outcome) ==
  /\ r \in polls /\ r.kind = "system-info"
  /\ polls' = polls \ {r}
  /\ systemInfo' = IF responseSuccess(safeFetch(outcome))
                   THEN Some(snapshotOf(r.av)) ELSE None
  /\ isConnected' = responseSuccess(safeFetch(outcome))
  /\ last' = [op |-> "systemInfo", cyc |-> r.cyc, id |-> r.av.id,
              ok |-> responseSuccess(safeFetch(outcome)),
              pair |-> (last.op = "vehicleStatus" /\ last.cyc = r.cyc),
              statusOk |-> IF last.op = "vehicleStatus" /\ last.cyc = r.cyc
                           THEN last.ok ELSE TRUE]
  /\ UNCHANGED <<now, stUser, stVehicles, stActive, isAuthenticated, user,
                 showLogin, vehicles, activeVehicle, vehicleData,
                 isLoading, activeTab, effIsConnected, probes>>
  /\ UNCHANGED extVars

\* fetchSystemInfo from its await on
systemInfoResponse(r, outcome) ==
  /\ r \in polls /\ r.kind = "system-info"
  /\ polls' = polls \ {r}
  /\ systemInfo' = IF responseSuccess(safeFetch(outcome))
                   THEN Some(snapshotOf(r.av)) ELSE None
  /\ last' = [op |-> "systemInfo", cyc |-> r.cyc, id |-> r.av.id,
              ok |-> responseSuccess(safeFetch(outcome)),
              pair |-> (last.op = "vehicleStatus" /\ last.cyc = r.cyc),
              statusOk |-> IF last.op = "vehicleStatus" /\ last.cyc = r.cyc
                           THEN last.ok ELSE TRUE]
  /\ UNCHANGED <<now, stUser, stVehicles, stActive, isAuthenticated, user,
                 showLogin, vehicles, activeVehicle, vehicleData, isConnected,
                 isLoading, activeTab, effIsConnected, probes>>
  /\ UNCHANGED extVars

\* ------------------------------------------------------------------ map
\* A grid is a sequence of rows, a row a sequence of cells; a cell that is
\* an array is the tuple of its elements, a cell that is a number v is <<v>>
\* (the arrays in the grids drawn here have two elements or at least three).
RED == <<255, 0, 0>>
GREEN == <<0, 255, 0>>
BLUE == <<0, 0, 255>>
NEARBLACK == <<10, 10, 10>>
Colours == {RED, GREEN, BLUE, NEARBLACK}

Min(a, b) == IF a < b THEN a ELSE b

\* a store into Uint8ClampedArray
clamp8(v) == IF v < 0 THEN 0 ELSE IF v > 255 THEN 255 ELSE v

pixelIndexColumnMajor(y, x) == x * CanvasHeight + y

\* `(y * canvas.width + x) * 4`, in pixels
pixelIndex(y, x) == y * CanvasWidth + x

\* `Array.isArray(mapValue) && mapValue.length >= 3`
isTriple(mapValue) == Len(mapValue) >= 3

\* `typeof mapValue === "number"`
isNumber(mapValue) == Len(mapValue) = 1

\* the four bytes drawMap stores for one cell; in the grayscale branch
\* `value` is read inside its own initializer, which gives undefined (stored
\* as 0) where the build turns const into var
cellPixel(mapValue) ==
  IF isTriple(mapValue)
  THEN <<clamp8(mapValue[1]), clamp8(mapValue[2]), clamp8(mapValue[3]), 255>>
  ELSE <<0, 0, 0, 255>>

\* the cells the two loops visit
visited(grid) ==
  {<<y, x>> \in (0..(CanvasHeight - 1)) \X (0..(CanvasWidth - 1)) :
     y < Min(CanvasHeight, Len(grid)) /\ x < Min(CanvasWidth, Len(grid[y + 1]))}

\* ctx.createImageData (transparent black) after the two loops
imageDataOf(grid) ==
  [k \in 0..(CanvasWidth * CanvasHeight - 1) |->
     IF \E c \in visited(grid) : pixelIndex(c[1], c[2]) = k
     THEN LET c == CHOOSE c \in visited(grid) : pixelIndex(c[1], c[2]) = k
          IN  cellPixel(grid[c[1] + 1][c[2] + 1])
     ELSE <<0, 0, 0, 0>>]

\* the loops reach a cell that is a number: where const keeps its temporal
\* dead zone, reading `value` there throws a ReferenceError
readsValueEarly(grid) ==
  \E c \in visited(grid) :
     ~isTriple(grid[c[1] + 1][c[2] + 1]) /\ isNumber(grid[c[1] + 1][c[2] + 1])

\* drawMap, run by the [vehicleData] effect on a mounted canvas: either the
\* loops end and putImageData replaces the canvas, or the ReferenceError
\* leaves it as it was
drawMap ==
  /\ mapRegion # None /\ drawn = "none"
  /\ \E deadZone \in BOOLEAN :
       IF deadZone /\ readsValueEarly(mapRegion[1])
       THEN canvas' = canvas /\ drawn' = "threw"
       ELSE canvas' = imageDataOf(mapRegion[1]) /\ drawn' = "painted"
  /\ UNCHANGED <<mapRegion, dashVars, apiVars, commands, scanVars, shellVars>>

\* rectangular grids of the four colours that fit the canvas
ColourGrids ==
  UNION {[1..m -> [1..n -> Colours]] : m \in 0..CanvasHeight, n \in 1..CanvasWidth}

\* a grid with rows of two lengths, two with a number, one with an array of
\* two, one with bytes out of range, one larger than the canvas
OtherGrids ==
  { << <<RED>>, <<GREEN, BLUE>> >>,
    << << <<7>> >> >>,
    << << RED, <<7>> >> >>,
    << << <<1, 2>>, GREEN >> >>,
    << << <<300, 0 - 1, 0>> >> >>,
    [m \in 1..(CanvasHeight + 1) |-> [n \in 1..(CanvasWidth + 1) |-> BLUE]] }

\* a status answer has put a grid into vehicleData and the canvas is mounted
InitMap ==
  /\ InitApp
  /\ mapRegion \in {Some(g) : g \in ColourGrids \cup OtherGrids}
  /\ canvas = blankCanvas /\ drawn = "none"

\* ------------------------------------------------------------ commands
VehicleCommands == {"start", "stop", "emergency_stop"}
MiningCommands == {"start_mining", "stop_mining", "return_to_dock"}

\* What the network does to one POST /api/vehicle-control: fetch rejects, or
\* the answer is not JSON (response.json() throws), or it is a JSON object.
CommandOutcomes == {"network_error", "not_json", "success_false",
                    "success_missing", "success_true"}

\* what the user is shown once the POST has ended: the success alert, the
\* failure alert of the catch block, or nothing
commandReport(outcome) ==
  IF outcome \in {"network_error", "not_json"} THEN "failure"
  ELSE IF outcome = "success_true" THEN "success"
  ELSE "none"

\* the body both send functions share, up to the await of fetch
sendCommand(fn, command) ==
  /\ isAuthenticated /\ ~isLoading /\ isConnected
  /\ activeVehicle # None
  /\ Cardinality(commands) < MaxCommands
  /\ isLoading' = TRUE
  /\ commands' = commands \cup
       {[cid |-> CHOOSE k \in 1..MaxCommands : \A c \in commands : c.cid # k,
         fn |-> fn, command |-> command, url |-> activeVehicle[1].url,
         posts |-> 1]}
  /\ last' = [op |-> fn, command |-> command]
  /\ UNCHANGED <<now, stUser, stVehicles, stActive, isAuthenticated, user,
                 showLogin, vehicles, activeVehicle, vehicleData, systemInfo,
                 isConnected, activeTab, effIsConnected, probes, polls>>
  /\ UNCHANGED <<apiVars, mapVars, scanVars, shellVars>>

\* a button of the control tab
sendVehicleCommand(command) ==
  activeTab = "control" /\ sendCommand("sendVehicleCommand", command)

\* a button of the mining tab
sendMiningCommand(command) ==
  activeTab = "mining" /\ sendCommand("sendMiningCommand", command)

\* both send functions from the await of fetch on
commandResponse(c, outcome) ==
  /\ c \in commands
  /\ commands' = commands \ {c}
  /\ isLoading' = FALSE
  /\ last' = [op |-> "commandResponse", fn |-> c.fn, command |-> c.command,
              outcome |-> outcome, report |-> commandReport(outcome),
              posts |-> c.posts]
  /\ UNCHANGED <<now, stUser, stVehicles, stActive, isAuthenticated, user,
                 showLogin, vehicles, activeVehicle, vehicleData, systemInfo,
                 isConnected, activeTab, effIsConnected, probes, polls>>
  /\ UNCHANGED <<apiVars, mapVars, scanVars, shellVars>>

\* ------------------------------------------------- /api/vehicle-data route
\* `if (dataHistory.length > 1000)` 
HistoryCap == 1000
\* `dataHistory.slice(-100)`
HistoryWindow == 100

\* what request.json() gives: it throws on a body that is not JSON, gives
\* null for the body `null`, and gives the object for an object; the n-th
\* object sent carries the serial n
Bodies == {"unparsable", "null", "object"}

\* { ...data, receivedAt }: spreading null adds no field
storedEntry(body) ==
  [data |-> IF body = "null" THEN None ELSE Some(posted + 1), receivedAt |-> now]

\* the console.log arguments read data.timestamp: a TypeError when data is null
logThrows(body) == body = "null"

\* dataHistory.push(entry); if (dataHistory.length > 1000) dataHistory.shift()
pushCapped(history, entry) ==
  LET pushed == Append(history, entry)
  IN  IF Len(pushed) > HistoryCap THEN Tail(pushed) ELSE pushed

sliceFirst(s, k) == IF Len(s) <= k THEN s ELSE SubSeq(s, 1, k)

\* Array.prototype.slice(-k)
sliceLast(s, k) == IF Len(s) <= k THEN s ELSE SubSeq(s, Len(s) - k + 1, Len(s))

POST(body) ==
  /\ IF body = "unparsable"
     THEN /\ apiResponse' = [op |-> "POST", status |-> 500, success |-> FALSE,
                             stored |-> FALSE]
          /\ UNCHANGED <<latestVehicleData, dataHistory, posted>>
     ELSE /\ body = "null" => Len(dataHistory) < MaxNullWindow
          /\ body = "object" => posted < MaxPosts
          /\ latestVehicleData' = Some(storedEntry(body))
          /\ dataHistory' = pushCapped(dataHistory, storedEntry(body))
          /\ IF logThrows(body)
             THEN /\ apiResponse' = [op |-> "POST", status |-> 500,
                                     success |-> FALSE, stored |-> TRUE]
                  /\ posted' = posted
             ELSE /\ apiResponse' = [op |-> "POST", status |-> 200,
                                     success |-> TRUE, stored |-> TRUE]
                  /\ posted' = posted + 1
  /\ UNCHANGED <<dashVars, commands, mapVars, scanVars, shellVars>>

GET ==
  /\ apiResponse' = [op |-> "GET", status |-> 200,
                     latest |-> latestVehicleData,
                     history |-> sliceLast(dataHistory, HistoryWindow),
                     totalEntries |-> Len(dataHistory)]
  /\ UNCHANGED <<latestVehicleData, dataHistory, posted>>
  /\ UNCHANGED <<dashVars, commands, mapVars, scanVars, shellVars>>

\* ------------------------------------------- scripts/start_backend_testing.sh
\* the services start_service starts, in the order of the script
ServiceOrder == <<"enhanced_server", "mobile_api", "realtime_streaming">>
Services == {ServiceOrder[i] : i \in 1..Len(ServiceOrder)}

\* TEST_MODE=${1:-"--interactive"}
TestModes == {"--test", "--start", "--stop", "--status", "--logs", "--interactive"}

\* what the script leaves alone
notTheHost == <<dashVars, apiVars, commands, mapVars, scanVars, quick>>

\* a service is started by other means than this script: its systemd unit,
\* or start_enhanced_server.sh
serviceStartedOutside(service) ==
  /\ service \in Services \ running
  /\ running' = running \cup {service}
  /\ UNCHANGED <<pidFiles, testing>>
  /\ UNCHANGED notTheHost

\* stop_services: every pid file is removed, its process killed, and pkill
\* -f ends whatever runs one of the three server scripts
stop_services ==
  /\ running' = {}
  /\ pidFiles' = {}

\* the start_service calls of --test and --start, the first k of them: each
\* kills the running instance, starts a new one and writes its pid file; if
\* the last one called does not come up (~ok), set -e ends the script there
startServices(k, ok) ==
  LET called == {ServiceOrder[i] : i \in 1..k}
  IN  /\ pidFiles' = pidFiles \cup called
      /\ running' = IF ok THEN running \cup called
                    ELSE (running \cup called) \ {ServiceOrder[k]}

\* the script is called with a mode: everything up to `trap stop_services EXIT`
testingInvoke(mode) ==
  /\ testing.pc = "idle"
  /\ testing' = [pc |-> "main", mode |-> mode, did |-> "trap stop_services EXIT"]
  /\ UNCHANGED <<running, pidFiles>>
  /\ UNCHANGED notTheHost

\* the branch of `case "$TEST_MODE"`
testingMain ==
  /\ testing.pc = "main"
  /\ CASE testing.mode = "--status" ->
            /\ testing' = [testing EXCEPT !.pc = "exit", !.did = "show_status"]
            /\ UNCHANGED <<running, pidFiles>>
       [] testing.mode = "--logs" ->
            /\ testing' = [testing EXCEPT !.pc = "exit", !.did = "show_logs"]
            /\ UNCHANGED <<running, pidFiles>>
       [] testing.mode = "--stop" ->
            /\ testing' = [testing EXCEPT !.pc = "exit", !.did = "stop_services"]
            /\ stop_services
       [] testing.mode = "--test" ->
            /\ testing' = [testing EXCEPT !.pc = "exit", !.did = "start_service"]
            /\ \E k \in 0..Len(ServiceOrder), ok \in BOOLEAN :
                  (k > 0 \/ ok) /\ startServices(k, ok)
       [] testing.mode = "--start" ->
            \E k \in 0..Len(ServiceOrder), ok \in BOOLEAN :
               /\ k > 0 \/ ok
               /\ startServices(k, ok)
               /\ testing' = [testing EXCEPT
                                !.pc = IF ok /\ k = Len(ServiceOrder)
                                       THEN "waiting" ELSE "exit",
                                !.did = "start_service"]
       [] OTHER ->
            /\ testing' = [testing EXCEPT !.pc = "menu", !.did = "menu"]
            /\ UNCHANGED <<running, pidFiles>>
  /\ UNCHANGED notTheHost

\* Ctrl+C during `while true; do sleep 10; done`
testingInterrupt ==
  /\ testing.pc = "waiting"
  /\ testing' = [testing EXCEPT !.pc = "exit", !.did = "SIGINT"]
  /\ UNCHANGED <<running, pidFiles>>
  /\ UNCHANGED notTheHost

\* one answer to `read -p "Select option (1-6): "`; options 1 and 2 run the
\* script again as a child, which ends with its own EXIT trap
testingMenu(choice) ==
  /\ testing.pc = "menu"
  /\ CASE choice \in {1, 2} ->
            /\ testing' = [testing EXCEPT !.pc = "exit", !.did = "child run"]
            /\ stop_services
       [] choice = 3 ->
            /\ testing' = [testing EXCEPT !.did = "show_status"]
            /\ UNCHANGED <<running, pidFiles>>
       [] choice = 4 ->
            /\ testing' = [testing EXCEPT !.did = "show_logs"]
            /\ UNCHANGED <<running, pidFiles>>
       [] choice = 5 ->
            /\ testing' = [testing EXCEPT !.pc = "exit", !.did = "stop_services"]
            /\ stop_services
       [] choice = 6 ->
            /\ testing' = [testing EXCEPT !.pc = "exit", !.did = "Goodbye"]
            /\ UNCHANGED <<running, pidFiles>>
       [] OTHER ->
            /\ testing' = [testing EXCEPT !.did = "Invalid option"]
            /\ UNCHANGED <<running, pidFiles>>
  /\ UNCHANGED notTheHost

\* the script ends: `trap stop_services EXIT` runs, whatever the mode was
testingExit ==
  /\ testing.pc = "exit"
  /\ testing' = [testing EXCEPT !.pc = "idle", !.did = "EXIT trap"]
  /\ stop_services
  /\ UNCHANGED notTheHost

\* ------------------------------------------------ the quick backend test script
\* The run_test calls in the order of the script: "helper" where the test
\* command calls one of the functions check_port, check_http, check_file,
\* check_dir, check_python_module, "direct" where it is python3 or curl.
QuickTests ==
  << "helper", "helper", "helper", "helper", "helper", "helper", "helper",
     "helper", "helper", "helper", "helper", "helper",
     "helper", "helper", "helper",
     "helper", "helper", "helper",
     "direct", "direct",
     "direct", "direct", "direct",
     "helper", "direct",
     "direct", "helper",
     "direct" >>

\* How `timeout $timeout bash -c "$test_command"` can end: status 0, another
\* status of the command, 124 of timeout, 127 of a command that does not
\* exist.  The helper functions are defined in the script's shell only: the
\* child bash knows them only if the caller's environment exports functions
\* of these names.
testResults(kind, exported) ==
  IF kind = "helper" /\ ~exported THEN {"not_found"}
  ELSE {"pass", "fail", "timeout", "not_found"}

\* what the script and its caller leave alone
notTheQuickTest == <<dashVars, apiVars, commands, mapVars, scanVars, running,
                     pidFiles, testing>>

\* the script is started: the counters are set to 0
quickStart(exported) ==
  /\ quick.pc \in {"idle", "exited"}
  /\ quick' = [pc |-> "running", exported |-> exported, next |-> 1,
               TOTAL_TESTS |-> 0, PASSED_TESTS |-> 0, FAILED_TESTS |-> 0,
               summary |-> FALSE, status |-> None, result |-> ""]
  /\ UNCHANGED notTheQuickTest

\* The next run_test call.  A failed test makes run_test return 1, and under
\* `set -e` the script ends there with that status.
run_test(result) ==
  /\ quick.pc = "running" /\ quick.next <= Len(QuickTests)
  /\ result \in testResults(QuickTests[quick.next], quick.exported)
  /\ quick' =
       IF result = "pass"
       THEN [quick EXCEPT !.TOTAL_TESTS = @ + 1, !.PASSED_TESTS = @ + 1,
                          !.next = @ + 1, !.result = result]
       ELSE [quick EXCEPT !.TOTAL_TESTS = @ + 1, !.FAILED_TESTS = @ + 1,
                          !.result = result,
                          !.pc = "exited", !.status = Some(1)]
  /\ UNCHANGED notTheQuickTest

\* `SUCCESS_RATE=$((PASSED_TESTS * 100 / TOTAL_TESTS))`
SUCCESS_RATE(q) ==
  IF q.TOTAL_TESTS > 0 THEN (q.PASSED_TESTS * 100) \div q.TOTAL_TESTS ELSE 0

\* the exit status the summary chooses
overallResult(q) ==
  IF q.FAILED_TESTS = 0 THEN 0
  ELSE IF SUCCESS_RATE(q) >= 80 THEN 1
  ELSE 2

\* "Test Summary", after the last run_test call
testSummary ==
  /\ quick.pc = "running" /\ quick.next = Len(QuickTests) + 1
  /\ quick' = [quick EXCEPT !.summary = TRUE, !.pc = "exited",
                            !.status = Some(overallResult(quick))]
  /\ UNCHANGED notTheQuickTest

\* ------------------------------------------------------------------ the system
Next ==
  \/ ClockTick
  \/ Mount
  \/ \E e \in LoginEmails, pw \in LoginPasswords : handleLogin(e, pw)
  \/ handleLogout
  \/ \E n \in VehicleNames, u \in VehicleUrls : addVehicle(n, u)
  \/ \E i \in 1..Len(vehicles) : removeVehicle(vehicles[i].id)
  \/ \E i \in 1..Len(vehicles) : connectToVehicle(vehicles[i])
  \/ \E p \in probes, o \in Outcomes : connectResponse(p, o)
  \/ disconnectFromVehicle
  \/ \E t \in Tabs : selectTab(t)
  \/ pollTick
  \/ \E r \in polls, o \in Outcomes : vehicleStatusResponse(r, o)
  \/ \E r \in polls, o \in Outcomes : systemInfoResponse(r, o)
  \/ \E c \in VehicleCommands : sendVehicleCommand(c)
  \/ \E c \in MiningCommands : sendMiningCommand(c)
  \/ \E c \in commands, o \in CommandOutcomes : commandResponse(c, o)
  \/ \E body \in Bodies : POST(body)
  \/ GET
  \/ drawMap
  \/ scanForVehicles
  \/ \E s \in scans, ip \in NetworkIPs : networkIPResponse(s, ip)
  \/ \E s \in scans, o \in Outcomes : scanProbeResponse(s, o)
  \/ \E service \in Services : serviceStartedOutside(service)
  \/ \E mode \in TestModes : testingInvoke(mode)
  \/ testingMain
  \/ testingInterrupt
  \/ \E choice \in 1..7 : testingMenu(choice)
  \/ testingExit
  \/ \E exported \in BOOLEAN : quickStart(exported)
  \/ \E result \in {"pass", "fail", "timeout", "not_found"} : run_test(result)
  \/ testSummary

Spec == Init /\ [][Next]_vars

\* ------------------------------------------------------------------ slices
\* The same system with part of its handlers and inputs, for the checks that
\* need a state space TLC can finish: each slice keeps the handlers that
\* build the states its claims are about.
signIn == handleLogin(" Admin@SmartRover.COM ", "admin123")

\* the registry handlers over vehicles of one endpoint
NextRegistry ==
  \/ ClockTick
  \/ signIn
  \/ \E n \in VehicleNames, u \in {"", "pi:5000", "http://pi:5000"} : addVehicle(n, u)
  \/ \E i \in 1..Len(vehicles) : removeVehicle(vehicles[i].id)
  \/ \E i \in 1..Len(vehicles) : connectToVehicle(vehicles[i])
  \/ \E p \in probes, o \in Outcomes : connectResponse(p, o)
  \/ disconnectFromVehicle
  \/ selectTab("vehicles")

SpecRegistry == Init /\ [][NextRegistry]_vars

\* every add-vehicle input, with the connect handlers
NextAdd ==
  \/ ClockTick
  \/ signIn
  \/ \E n \in VehicleNames, u \in VehicleUrls : addVehicle(n, u)
  \/ \E i \in 1..Len(vehicles) : connectToVehicle(vehicles[i])
  \/ \E p \in probes, o \in Outcomes : connectResponse(p, o)
  \/ selectTab("vehicles")

SpecAdd == Init /\ [][NextAdd]_vars

\* one outcome of each kind the poller's callers tell apart
PollOutcomes == {"timeout", "success_false", "success_missing", "success_true"}

\* the poller over a registry of one vehicle
NextPoll ==
  \/ ClockTick
  \/ signIn
  \/ handleLogout
  \/ (vehicles = <<>> /\ addVehicle("Rover", "pi:5000"))
  \/ \E i \in 1..Len(vehicles) : connectToVehicle(vehicles[i])
  \/ \E p \in probes, o \in PollOutcomes : connectResponse(p, o)
  \/ disconnectFromVehicle
  \/ \E t \in {"vehicles", "dashboard", "mining", "logs"} : selectTab(t)
  \/ pollTick
  \/ \E r \in polls, o \in PollOutcomes : vehicleStatusResponse(r, o)
  \/ \E r \in polls, o \in PollOutcomes : systemInfoResponse(r, o)

SpecPoll == Init /\ [][NextPoll]_vars

\* the session handlers on every login input, over a registry of one
\* vehicle that is connected and polled
NextAuth ==
  \/ ClockTick
  \/ Mount
  \/ \E e \in LoginEmails, pw \in LoginPasswords : handleLogin(e, pw)
  \/ handleLogout
  \/ (vehicles = <<>> /\ addVehicle("Rover", "pi:5000"))
  \/ \E i \in 1..Len(vehicles) : connectToVehicle(vehicles[i])
  \/ \E p \in probes, o \in PollOutcomes : connectResponse(p, o)
  \/ pollTick
  \/ \E r \in polls, o \in PollOutcomes : vehicleStatusResponse(r, o)
  \/ \E r \in polls, o \in PollOutcomes : systemInfoResponse(r, o)

SpecAuth == Init /\ [][NextAuth]_vars

\* the poller while the user connects to one of two vehicles, then the other
NextSwitch ==
  \/ ClockTick
  \/ signIn
  \/ (Len(vehicles) < 2 /\ addVehicle("Rover", "pi:5000"))
  \/ \E i \in 1..Len(vehicles) : connectToVehicle(vehicles[i])
  \/ \E p \in probes, o \in {"timeout", "success_true"} : connectResponse(p, o)
  \/ selectTab("vehicles")
  \/ pollTick
  \/ \E r \in polls, o \in {"timeout", "success_true"} : vehicleStatusResponse(r, o)
  \/ \E r \in polls : systemInfoResponse(r, "success_true")

SpecSwitch == Init /\ [][NextSwitch]_vars

\* the poller while the user disconnects, removes the vehicle or signs out
NextLate ==
  \/ ClockTick
  \/ signIn
  \/ handleLogout
  \/ (vehicles = <<>> /\ addVehicle("Rover", "pi:5000"))
  \/ \E i \in 1..Len(vehicles) : removeVehicle(vehicles[i].id)
  \/ \E i \in 1..Len(vehicles) : connectToVehicle(vehicles[i])
  \/ \E p \in probes, o \in {"timeout", "success_true"} : connectResponse(p, o)
  \/ disconnectFromVehicle
  \/ selectTab("vehicles")
  \/ pollTick
  \/ \E r \in polls, o \in {"timeout", "success_true"} : vehicleStatusResponse(r, o)
  \/ \E r \in polls : systemInfoResponse(r, "success_true")

SpecLate == Init /\ [][NextLate]_vars

\* the command buttons on a registry of one connected vehicle
NextControl ==
  \/ ClockTick
  \/ signIn
  \/ (vehicles = <<>> /\ addVehicle("Rover", "pi:5000"))
  \/ \E i \in 1..Len(vehicles) : connectToVehicle(vehicles[i])
  \/ \E p \in probes, o \in PollOutcomes : connectResponse(p, o)
  \/ disconnectFromVehicle
  \/ \E t \in {"vehicles", "control", "mining"} : selectTab(t)
  \/ \E c \in VehicleCommands : sendVehicleCommand(c)
  \/ \E c \in MiningCommands : sendMiningCommand(c)
  \/ \E c \in commands, o \in CommandOutcomes : commandResponse(c, o)

SpecControl == Init /\ [][NextControl]_vars

\* the discovery scan of a registry of at most one vehicle, next to the add
\* button
NextScan ==
  \/ signIn
  \/ (vehicles = <<>> /\ addVehicle("Rover", "192.168.1.1:5000"))
  \/ (Len(vehicles) <= 1 /\ scanForVehicles)
  \/ \E s \in scans, ip \in NetworkIPs : networkIPResponse(s, ip)
  \/ \E s \in scans, o \in PollOutcomes : scanProbeResponse(s, o)

SpecScan == Init /\ [][NextScan]_vars

\* the continuations of the scan called as number n
scanContinues(n) ==
  \E s \in scans :
     /\ s.sid = n
     /\ \/ \E ip \in NetworkIPs : networkIPResponse(s, ip)
        \/ \E o \in PollOutcomes : scanProbeResponse(s, o)

\* scans of an empty registry, while the user signs out and in and removes
\* what a scan has found
NextScanRun ==
  \/ signIn
  \/ handleLogout
  \/ (vehicles = <<>> /\ scanForVehicles)
  \/ \E i \in 1..Len(vehicles) : removeVehicle(vehicles[i].id)
  \/ \E s \in scans, ip \in NetworkIPs : networkIPResponse(s, ip)
  \/ \E s \in scans, o \in PollOutcomes : scanProbeResponse(s, o)

\* every request of a scan ends: safeFetch aborts a probe after 5 s, and the
\* browser ends the request of getCurrentNetworkIP
SpecScanFair ==
  Init /\ [][NextScanRun]_vars /\ \A n \in 1..MaxScans : WF_vars(scanContinues(n))

\* the Connect buttons of two vehicles next to everything that writes
\* isLoading: the sign-in form and the command buttons
NextBusy ==
  \/ ClockTick
  \/ signIn
  \/ handleLogout
  \/ (Len(vehicles) < 2 /\ addVehicle("Rover", "pi:5000"))
  \/ \E i \in 1..Len(vehicles) : connectToVehicle(vehicles[i])
  \/ \E p \in probes, o \in {"timeout", "success_true"} : connectResponse(p, o)
  \/ \E t \in {"vehicles", "control"} : selectTab(t)
  \/ sendVehicleCommand("start")
  \/ \E c \in commands, o \in {"network_error", "success_true"} : commandResponse(c, o)

SpecBusy == Init /\ [][NextBusy]_vars

\* start_backend_testing.sh on a host where services come up by themselves
NextTesting ==
  \/ \E service \in Services : serviceStartedOutside(service)
  \/ \E mode \in TestModes : testingInvoke(mode)
  \/ testingMain
  \/ testingInterrupt
  \/ \E choice \in 1..7 : testingMenu(choice)
  \/ testingExit

SpecTesting == Init /\ [][NextTesting]_vars

\* the quick backend test script on every outcome of its tests
NextQuick ==
  \/ \E exported \in BOOLEAN : quickStart(exported)
  \/ \E result \in {"pass", "fail", "timeout", "not_found"} : run_test(result)
  \/ testSummary

SpecQuick == Init /\ [][NextQuick]_vars

\* drawMap on every grid
NextMap == drawMap

SpecMap == InitMap /\ [][NextMap]_vars

\* the route handlers alone
NextApi ==
  \/ \E body \in Bodies : POST(body)
  \/ GET

SpecApi == Init /\ [][NextApi]_vars

\* ------------------------------------------------------------------ claims
hasScheme(url) == startsWith(url, "http://") \/ startsWith(url, "https://")

connectedEntries == {i \in 1..Len(vehicles) : vehicles[i].status = "connected"}

\* C1: right after the success handler of connectToVehicle(v), exactly one
\* registry entry has status 'connected', that entry is v, every other entry
\* has status 'disconnected', and v is the active vehicle.
C1_ExactlyOneConnected ==
  (last.op = "connectResponse" /\ last.ok) =>
     /\ Cardinality(connectedEntries) = 1
     /\ \A i \in 1..Len(vehicles) :
          IF vehicles[i].id = last.id THEN vehicles[i].status = "connected"
          ELSE vehicles[i].status = "disconnected"
     /\ activeVehicle # None /\ activeVehicle[1].id = last.id

\* the registry's ids are pairwise distinct
distinctIds ==
  \A i, j \in 1..Len(vehicles) : vehicles[i].id = vehicles[j].id => i = j

\* C1 on the registries whose ids are pairwise distinct (not what C1 says:
\* it shows that equal ids are the only way C1 fails)
C1_WhenIdsDistinct == distinctIds => C1_ExactlyOneConnected

\* C2: the failure handler of connectToVehicle(v) leaves every entry with
\* v's id 'disconnected' in the registry (in memory and persisted), leaves the
\* active pointer (in memory and persisted) as it was, and an active vehicle
\* u other than v has the registry status it had when connectToVehicle(v)
\* was called.
C2_FailedConnectLeavesActive ==
  [][ (now' = now /\ last'.op = "connectResponse" /\ ~last'.ok) =>
        LET p == CHOOSE q \in probes : q.pid = last'.pid IN
        /\ \E i \in 1..Len(vehicles') : vehicles'[i].id = p.vehicle.id
        /\ \A i \in 1..Len(vehicles') :
             vehicles'[i].id = p.vehicle.id => vehicles'[i].status = "disconnected"
        /\ stVehicles' = Some(vehicles')
        /\ activeVehicle' = activeVehicle
        /\ stActive' = stActive
        /\ (activeVehicle # None /\ activeVehicle[1].id # p.vehicle.id) =>
             /\ Len(vehicles') = Len(p.vehicles)
             /\ \A i \in 1..Len(p.vehicles) :
                  p.vehicles[i].id = activeVehicle[1].id =>
                    /\ vehicles'[i].id = p.vehicles[i].id
                    /\ vehicles'[i].status = p.vehicles[i].status
    ]_vars

\* a connect to v has just failed while another vehicle is active and shown
\* as connected
C2_Witness ==
  /\ last.op = "connectResponse" /\ ~last.ok
  /\ activeVehicle # None /\ stActive # None
  /\ activeVehicle[1].id # last.id
  /\ \E i \in 1..Len(vehicles) :
       vehicles[i].id = activeVehicle[1].id /\ vehicles[i].status = "connected"
  /\ \E i \in 1..Len(vehicles) :
       vehicles[i].id = last.id /\ vehicles[i].status = "disconnected"

\* C3: once the vehicle-status answer of a poll cycle has failed, isConnected
\* is false and vehicleData absent, and they still are when the system-info
\* answer of the same cycle is handled next, whatever it is; the same holds
\* when the system-info answer came first.
C3_StatusFailureWins ==
  /\ (last.op = "vehicleStatus" /\ ~last.ok) =>
       (~isConnected /\ vehicleData = None)
  /\ (last.op = "systemInfo" /\ last.pair /\ ~last.statusOk) =>
       (~isConnected /\ vehicleData = None)

\* the system-info answer of a cycle succeeded right after the vehicle-status
\* answer of that cycle had failed
C3_Witness ==
  last.op = "systemInfo" /\ last.pair /\ ~last.statusOk /\ last.ok /\ systemInfo # None

\* C4: on a poll tick, logs is requested only on the logs tab, mining-sessions
\* only on the mining tab, waypoints only on the tab that shows them (mining),
\* and nothing but vehicle-status and system-info whatever the tab.
C4_OnlyStatusAndInfoOnEveryTab ==
  last.op = "pollTick" =>
     /\ "logs" \in last.issued => last.tab = "logs"
     /\ "mining-sessions" \in last.issued => last.tab = "mining"
     /\ "waypoints" \in last.issued => last.tab = "mining"
     /\ last.tab \notin {"logs", "mining"} =>
          last.issued \subseteq {"vehicle-status", "system-info"}

\* C4 as amended: on a poll tick, logs is requested exactly on the logs tab
\* and mining-sessions exactly on the mining tab; vehicle-status and waypoints
\* are requested on every tick whatever the tab, and system-info whenever the
\* callback's isConnected is true.
C4_WaypointsOnEveryTab ==
  last.op = "pollTick" =>
     /\ "logs" \in last.issued <=> last.tab = "logs"
     /\ "mining-sessions" \in last.issued <=> last.tab = "mining"
     /\ {"vehicle-status", "waypoints"} \subseteq last.issued
     /\ "system-info" \in last.issued <=> last.closureConnected
     /\ last.issued \subseteq {"vehicle-status", "system-info", "waypoints",
                                "logs", "mining-sessions"}

\* a tick on the logs tab asked for logs and for waypoints, not for sessions
C4_Witness ==
  /\ last.op = "pollTick" /\ last.tab = "logs"
  /\ {"logs", "waypoints"} \subseteq last.issued
  /\ "mining-sessions" \notin last.issued

\* C5: while the user is signed in and a vehicle is active the interval is
\* armed, also when isConnected is false; every tick requests vehicle-status;
\* and a vehicle-status success sets isConnected and stores the answer's
\* snapshot as vehicleData.
C5_PollingGoesOn ==
  /\ (isAuthenticated /\ activeVehicle # None) => intervalArmed
  /\ (intervalArmed /\ polls = {}) => ENABLED pollTick
  /\ last.op = "pollTick" => "vehicle-status" \in last.issued
  /\ (last.op = "vehicleStatus" /\ last.ok) =>
       /\ isConnected
       /\ vehicleData # None /\ vehicleData[1].src = last.id

\* a vehicle-status answer succeeded while isConnected was false
C5_Witness ==
  /\ last.op = "vehicleStatus" /\ last.ok /\ ~last.connected
  /\ isConnected /\ vehicleData # None /\ intervalArmed

\* C6: removeVehicle(id) removes the entries with that id and keeps the
\* others in order (in memory and persisted); the active pointer (in memory
\* and persisted) is cleared when it had that id and untouched otherwise.
C6_RemoveVehicle ==
  [][ (now' = now /\ last'.op = "removeVehicle") =>
        /\ vehicles' = SelectSeq(vehicles, LAMBDA v : v.id # last'.id)
        /\ Len(vehicles') < Len(vehicles)
        /\ stVehicles' = Some(vehicles')
        /\ IF activeVehicle # None /\ activeVehicle[1].id = last'.id
           THEN activeVehicle' = None /\ stActive' = None
           ELSE activeVehicle' = activeVehicle /\ stActive' = stActive
    ]_vars

\* the active vehicle has just been removed from a registry of two
C6_Witness ==
  /\ last.op = "removeVehicle" /\ last.active
  /\ activeVehicle = None /\ stActive = None
  /\ Len(vehicles) = 1

\* C7: an addVehicle with non-empty name and url appends an entry whose url
\* is the input with 'http://' in front when the input starts with neither
\* 'http://' nor 'https://', and the input itself otherwise; every entry
\* made by addVehicle has a scheme.
C7_AddNormalizesUrl ==
  /\ (last.op = "addVehicle" /\ last.name # "" /\ last.url # "") =>
       /\ vehicles # <<>>
       /\ vehicles[Len(vehicles)].name = last.name
       /\ vehicles[Len(vehicles)].url =
            IF hasScheme(last.url) THEN last.url ELSE "http://" \o last.url
  /\ \A i \in 1..Len(vehicles) :
       vehicles[i].type = "manual" => hasScheme(vehicles[i].url)

\* a bare host:port and an https URL have been added
C7_Witness ==
  /\ last.op = "addVehicle" /\ last.url = "https://pi:5000"
  /\ Len(vehicles) = 2
  /\ vehicles[1].url = "http://pi:5000"
  /\ vehicles[2].url = "https://pi:5000"

\* C8: an addVehicle with an empty name or an empty url changes neither the
\* registry, nor the persisted list, nor the active pointer.
C8_AddRejectsEmpty ==
  [][ (now' = now /\ last'.op = "addVehicle"
         /\ (last'.name = "" \/ last'.url = "")) =>
        /\ vehicles' = vehicles
        /\ stVehicles' = stVehicles
        /\ activeVehicle' = activeVehicle
        /\ stActive' = stActive
    ]_vars

\* an add with a name and an empty url has been rejected while a vehicle was
\* active
C8_Witness ==
  /\ last.op = "addVehicle" /\ last.name = "Rover" /\ last.url = ""
  /\ vehicles # <<>> /\ activeVehicle # None

\* the credential key the claim names: the trimmed, lower-cased input
claimedKey == [formEmail \in LoginEmails |-> toLowerCase(trim(formEmail))]

\* C9: handleLogin succeeds exactly when the trimmed, lower-cased email is a
\* key of VALID_USERS and the password equals that key's password; on
\* success the session {email, loginTime} is persisted and the user is
\* authenticated, otherwise no session is persisted and the user is not
\* authenticated.
C9_LoginExactlyOnMatch ==
  last.op = "login" =>
     LET key == claimedKey[last.email] IN
     IF key \in DOMAIN VALID_USERS /\ VALID_USERS[key] = last.password
     THEN /\ isAuthenticated /\ ~showLogin
          /\ stUser = Some([email |-> key, loginTime |-> last.at])
          /\ user = stUser
     ELSE /\ ~isAuthenticated
          /\ stUser = None /\ user = None

\* a login typed with capitals and spaces has succeeded
C9_Witness ==
  /\ last.op = "login" /\ last.email = " Admin@SmartRover.COM "
  /\ isAuthenticated
  /\ stUser # None /\ stUser[1].email = "admin@smartrover.com"

\* C10: right after handleLogout the persisted session and the persisted
\* active pointer are gone, the user is unauthenticated, activeVehicle,
\* vehicleData and systemInfo are absent, isConnected is false and the login
\* prompt is shown.
C10_LogoutClears ==
  last.op = "logout" =>
     /\ stUser = None /\ stActive = None
     /\ ~isAuthenticated /\ user = None
     /\ activeVehicle = None /\ vehicleData = None /\ systemInfo = None
     /\ ~isConnected
     /\ showLogin

\* a logout has just ended a session that had an active vehicle and data
C10_Witness ==
  last.op = "logout" /\ last.active /\ last.data /\ stActive = None

\* the entry POST stores for the n-th object it accepts
acceptedEntry(n) == [data |-> Some(n), receivedAt |-> now]

\* C11: after n POSTs answered with success the history holds at most 1000
\* entries, they are the last min(n, 1000) accepted payloads in arrival
\* order, and the latest payload is the one accepted last.
C11_HistoryIsLastAccepted ==
  LET h == Len(dataHistory)
  IN  /\ h <= HistoryCap
      /\ h = IF posted < HistoryCap THEN posted ELSE HistoryCap
      /\ \A i \in 1..h : dataHistory[i] = acceptedEntry(posted - h + i)
      /\ latestVehicleData =
           IF posted = 0 THEN None ELSE Some(acceptedEntry(posted))

\* C11 for the payloads the route has stored, whatever it answered (not what
\* C11 says: the history is capped and rolls oldest first)
C11_CappedAndRolling ==
  [][ (apiResponse'.op = "POST" /\ apiResponse'.stored) =>
        /\ Len(dataHistory') <= HistoryCap
        /\ Len(dataHistory') =
             IF Len(dataHistory) < HistoryCap THEN Len(dataHistory) + 1
             ELSE HistoryCap
        /\ latestVehicleData' = Some(dataHistory'[Len(dataHistory')])
        /\ \A i \in 1..(Len(dataHistory') - 1) :
             dataHistory'[i] = dataHistory[Len(dataHistory) + 1 - Len(dataHistory') + i]
    ]_vars

\* C12: GET answers with the stored latest payload (null before any POST),
\* the last min(100, h) history entries in arrival order and totalEntries = h,
\* and changes neither the latest payload nor the history.
C12_GetReturnsWindow ==
  [][ apiResponse'.op = "GET" =>
        LET h == Len(dataHistory)
            w == IF h < HistoryWindow THEN h ELSE HistoryWindow
            body == apiResponse'
        IN  /\ body.latest = latestVehicleData
            /\ Len(body.history) = w
            /\ \A i \in 1..w : body.history[i] = dataHistory[h - w + i]
            /\ body.totalEntries = h
            /\ latestVehicleData' = latestVehicleData
            /\ dataHistory' = dataHistory
    ]_vars

\* a GET has answered with 100 of the 1000 entries of a full history
C12_Witness ==
  /\ apiResponse.op = "GET"
  /\ Len(dataHistory) = HistoryCap
  /\ apiResponse.totalEntries = HistoryCap
  /\ Len(apiResponse.history) = HistoryWindow
  /\ apiResponse.history[HistoryWindow] = latestVehicleData[1]
  /\ posted > HistoryCap

\* C13: safeFetch returns null on a network error, a timeout, a non-2xx
\* status and a body whose success is falsy (false, missing, null, 0), and
\* the parsed body only for a 2xx answer whose success is truthy.
C13_NullOnFalsySuccess ==
  last.op = "connectResponse" =>
     /\ last.response = None <=> last.outcome # "success_true"
     /\ last.outcome = "success_true" => last.response = Some("success_true")

\* C13 as amended: safeFetch returns null on a network error, a timeout, a
\* non-2xx status and a body whose success is exactly false; it returns the
\* parsed body of every other 2xx answer, also when success is missing, null
\* or 0, and it is the caller's test of `success` that makes those a failure.
C13_NullOnSuccessFalseOnly ==
  last.op = "connectResponse" =>
     /\ last.response = None <=>
          last.outcome \in {"network_error", "timeout", "non_2xx", "success_false"}
     /\ last.response # None => last.response = Some(last.outcome)
     /\ last.ok <=> last.outcome = "success_true"

\* the probe was answered 2xx without a success field: safeFetch returned the
\* body and the caller took it for a failure
C13_Witness ==
  /\ last.op = "connectResponse" /\ last.outcome = "success_missing"
  /\ last.response = Some("success_missing")
  /\ ~last.ok
  /\ \E i \in 1..Len(vehicles) :
       vehicles[i].id = last.id /\ vehicles[i].status = "disconnected"

\* C14: a command sent with an active vehicle makes exactly one POST, and
\* when it has ended the user is shown a success report if the answer says
\* success:true and a failure report if it says success:false or the request
\* failed.
C14_CommandOutcomeReported ==
  last.op = "commandResponse" =>
     /\ last.posts = 1
     /\ last.report = IF last.outcome = "success_true" THEN "success"
                      ELSE "failure"

\* C14 without the success:false case (not what C14 says): one POST, and a
\* report for success:true and for a request that failed
C14_ReportedUnlessSuccessFalse ==
  last.op = "commandResponse" =>
     /\ last.posts = 1
     /\ last.outcome = "success_true" => last.report = "success"
     /\ last.outcome \in {"network_error", "not_json"} => last.report = "failure"

\* the cells of the grid are RGB triples of bytes and the grid fits the canvas
rgbGridThatFits(grid) ==
  /\ Len(grid) <= CanvasHeight
  /\ \A y \in 1..Len(grid) :
       /\ Len(grid[y]) <= CanvasWidth
       /\ \A x \in 1..Len(grid[y]) :
            /\ Len(grid[y][x]) = 3
            /\ \A ch \in 1..3 : grid[y][x][ch] \in 0..255

\* C15: for a grid of RGB triples no larger than the canvas, drawMap writes
\* for the cell in row y, column x the pixel (R, G, B, 255) at index
\* y*width + x; the grid [[red, green], [blue, near-black]] gives those four
\* opaque pixels in row-major order.
C15_DrawMapCopiesRgb ==
  (mapRegion # None /\ drawn # "none" /\ rgbGridThatFits(mapRegion[1])) =>
     /\ drawn = "painted"
     /\ \A y \in 1..Len(mapRegion[1]) : \A x \in 1..Len(mapRegion[1][y]) :
          LET cell == mapRegion[1][y][x]
          IN  canvas[(y - 1) * CanvasWidth + (x - 1)] =
                <<cell[1], cell[2], cell[3], 255>>

\* the grid of the example has been drawn
C15_Witness ==
  /\ mapRegion = Some(<< <<RED, GREEN>>, <<BLUE, NEARBLACK>> >>)
  /\ drawn = "painted"
  /\ canvas[0] = <<255, 0, 0, 255>>
  /\ canvas[1] = <<0, 255, 0, 255>>
  /\ canvas[CanvasWidth] = <<0, 0, 255, 255>>
  /\ canvas[CanvasWidth + 1] = <<10, 10, 10, 255>>

\* C23: at most one connect probe is in flight at any time: while
\* connectToVehicle is awaiting its probe isLoading stays true, so no second
\* connectToVehicle can be started until the first has finished, whatever
\* other actions (sending a command, logging in) run in between.
C23_OneProbeInFlight ==
  /\ Cardinality(probes) <= 1
  /\ probes # {} => isLoading

\* a probe is in flight for one vehicle while the user, who has signed out,
\* is at the login prompt and the registry holds a second vehicle
C23_Witness ==
  /\ Cardinality(probes) = 1
  /\ ~isAuthenticated /\ showLogin
  /\ \E i \in 1..Len(vehicles) :
        \A p \in probes : vehicles[i].id # p.vehicle.id

\* C24: for every grid cell that is a scalar number v, drawMap writes the
\* opaque gray pixel (v, v, v, 255) at the cell's row-major position, without
\* raising an error; a cell that is neither a triple nor a number is written
\* as (0, 0, 0, 255).
C24_ScalarCellIsGray ==
  (mapRegion # None /\ drawn # "none") =>
     /\ drawn = "painted"
     /\ \A c \in visited(mapRegion[1]) :
          LET cell == mapRegion[1][c[1] + 1][c[2] + 1]
          IN  /\ isNumber(cell) =>
                   canvas[c[1] * CanvasWidth + c[2]] =
                     <<cell[1], cell[1], cell[1], 255>>
              /\ (~isNumber(cell) /\ ~isTriple(cell)) =>
                   canvas[c[1] * CanvasWidth + c[2]] = <<0, 0, 0, 255>>

\* what holds of the cells drawMap gets through: a cell that is no triple
\* is written as opaque black, a number included, or drawMap has thrown
C24_NonTripleIsBlack ==
  (mapRegion # None /\ drawn = "painted") =>
     \A c \in visited(mapRegion[1]) :
        ~isTriple(mapRegion[1][c[1] + 1][c[2] + 1]) =>
           canvas[c[1] * CanvasWidth + c[2]] = <<0, 0, 0, 255>>

\* C28: whenever POST /api/vehicle-data answers with a failure (status 500,
\* success:false), the stored latest payload and the stored history are
\* exactly what they were before the request, for every request body,
\* bodies that are valid JSON but no objects (null) included.
C28_FailedPostStoresNothing ==
  [][ (apiResponse'.op = "POST" /\ ~apiResponse'.success) =>
        /\ latestVehicleData' = latestVehicleData
        /\ dataHistory' = dataHistory ]_vars

\* what holds of the failures: a body that is no JSON leaves the store as it
\* was
C28_UnparsableStoresNothing ==
  [][ (apiResponse'.op = "POST" /\ ~apiResponse'.stored) =>
        /\ ~apiResponse'.success /\ apiResponse'.status = 500
        /\ latestVehicleData' = latestVehicleData
        /\ dataHistory' = dataHistory ]_vars

\* C21: in every reachable state of a dashboard that started from an empty
\* persisted list, at most one registry entry has status 'connected'.
C21_AtMostOneConnected == Cardinality(connectedEntries) <= 1

\* what holds instead: two entries are 'connected' only if they have the id
\* of the vehicle connected last, that is only in a registry with a
\* repeated id
C21_OneConnectedId ==
  \A i, j \in connectedEntries : vehicles[i].id = vehicles[j].id

\* C22: no poll tick fires while there is no active vehicle, while the
\* active vehicle's status is not 'connected', or while the user is not
\* authenticated: once the active vehicle is cleared (disconnect, remove,
\* logout) the timer is torn down and no new telemetry request is issued
\* until a vehicle is active again.
C22_TicksOnlyWhileArmed ==
  [][ (~(polls' \subseteq polls) \/ (last'.op = "pollTick" /\ last' # last)) =>
        /\ isAuthenticated
        /\ activeVehicle # None
        /\ activeVehicle[1].status = "connected"
        /\ last'.op = "pollTick" ]_vars

\* the user has signed out while a vehicle-status request was in flight, its
\* answer has put the vehicle back as the active one, and no tick has fired
C22_Witness ==
  /\ last.op = "vehicleStatus" /\ last.ok /\ last.was = None
  /\ ~isAuthenticated
  /\ activeVehicle # None /\ activeVehicle[1].status = "connected"
  /\ \A r \in polls : r.kind # "vehicle-status"

\* C25: a discovery scan never adds a vehicle whose URL equals the URL of a
\* vehicle already in the registry, including when the user adds a vehicle
\* with that URL while the scan is running.
C25_ScanAddsNoKnownUrl ==
  [][ (scans' # scans /\ last'.op = "scanStep" /\ last'.ended) =>
        \A k \in 1..Len(last'.found) :
           ~findsUrl(vehicles, last'.found[k].url) ]_vars

\* what holds after the scan has saved its result: no URL it found occurs in
\* two entries of the registry, the entries the user added while the scan
\* was running being no longer in it
C25_NoUrlTwiceAfterSave ==
  (last.op = "scanStep" /\ last.ended) =>
     \A k \in 1..Len(last.found) :
        Cardinality({j \in 1..Len(vehicles) :
                       vehicles[j].url = last.found[k].url}) = 1

\* C26: all registry entries have pairwise distinct ids after any sequence
\* of addVehicle, scanForVehicles and removeVehicle, for every behaviour of
\* the clock used to build ids (two operations within the same millisecond
\* included).
C26_IdsPairwiseDistinct ==
  \A i, j \in 1..Len(vehicles) : vehicles[i].id = vehicles[j].id => i = j

C29_ReportingOnlyReports ==
  [][ testing' # testing =>
        /\ (testing.pc # "idle" /\ testing.mode \in {"--status", "--logs"}) =>
              (running' = running /\ pidFiles' = pidFiles)
        /\ (~(running \subseteq running') \/ ~(pidFiles \subseteq pidFiles')) =>
              \/ testing.mode \in {"--test", "--start", "--stop"}
              \/ testing'.did \in {"stop_services", "child run"}
              \/ testing'.did = "EXIT trap"
                   /\ testing.did \in {"stop_services", "child run"} ]_vars

\* what holds of the two reporting functions themselves: show_status and
\* show_logs change neither the services nor the pid files
C29_ReportFunctionsOnlyReport ==
  [][ (testing' # testing /\ testing'.did \in {"show_status", "show_logs"}) =>
        (running' = running /\ pidFiles' = pidFiles) ]_vars

\* C30: the quick backend test script runs every listed test regardless of
\* earlier failures, keeps TOTAL_TESTS = PASSED_TESTS + FAILED_TESTS, prints
\* the summary, and exits with 0 when no test failed, 1 when some test
\* failed but at least 80% passed, and 2 otherwise.
C30_RunsAllAndReports ==
  quick.pc = "exited" =>
     /\ quick.TOTAL_TESTS = Len(QuickTests)
     /\ quick.TOTAL_TESTS = quick.PASSED_TESTS + quick.FAILED_TESTS
     /\ quick.summary
     /\ quick.status = Some(overallResult(quick))

\* what holds instead: the counters add up, the first failed test ends the
\* script with status 1 and no summary, and the summary is reached only
\* with no failure, where it exits with 0
C30_StopsAtFirstFailure ==
  /\ quick.TOTAL_TESTS = quick.PASSED_TESTS + quick.FAILED_TESTS
  /\ quick.FAILED_TESTS <= 1
  /\ quick.pc = "exited" =>
        IF quick.FAILED_TESTS = 0
        THEN quick.summary /\ quick.status = Some(0)
                           /\ quick.TOTAL_TESTS = Len(QuickTests)
        ELSE ~quick.summary /\ quick.status = Some(1)

\* C16: a vehicle-status answer is applied whatever vehicle is active when
\* it arrives: a success for a request sent to vehicle A makes A's snapshot
\* the vehicleData and writes A back as the active pointer (in memory and
\* persisted), so after the user has connected to B a late answer from A
\* leaves B shown as connected while the data and the pointer are A's.
C16_LateStatusIsApplied ==
  [][ (now' = now /\ last'.op = "vehicleStatus" /\ last'.ok) =>
        /\ vehicleData' # None /\ vehicleData'[1].src = last'.id
        /\ activeVehicle' # None /\ activeVehicle'[1].id = last'.id
        /\ stActive' = activeVehicle'
        /\ isConnected'
    ]_vars

\* B was the active, connected vehicle when a late success from A arrived:
\* the registry shows B connected, vehicleData and the pointer are A's
C16_Witness ==
  /\ last.op = "vehicleStatus" /\ last.ok
  /\ last.was # None /\ last.was[1] # last.id
  /\ \E i \in 1..Len(vehicles) :
       vehicles[i].id = last.was[1] /\ vehicles[i].status = "connected"
  /\ \E i \in 1..Len(vehicles) :
       vehicles[i].id = last.id /\ vehicles[i].status = "disconnected"
  /\ vehicleData # None /\ vehicleData[1].src = last.id
  /\ activeVehicle # None /\ activeVehicle[1].id = last.id
  /\ stActive = activeVehicle

\* C17: the active pointer becomes present only by a successful connect or
\* by loading the persisted pointer at startup or login, the persisted
\* pointer only by a successful connect, and while no vehicle is active
\* isConnected becomes true only by a successful connect, whatever poll
\* answers arrive.
C17_PointerOnlyByConnectOrLoad ==
  [][ /\ (activeVehicle = None /\ activeVehicle' # None) =>
           \/ (last'.op = "connectResponse" /\ last'.ok)
           \/ last'.op \in {"login", "mount"}
      /\ (stActive = None /\ stActive' # None) =>
           (last'.op = "connectResponse" /\ last'.ok)
      /\ (activeVehicle = None /\ ~isConnected /\ isConnected') =>
           (last'.op = "connectResponse" /\ last'.ok)
    ]_vars

\* C18: the completion of a connect probe loses no registry update made
\* while it was awaiting the network: it leaves the registry with the
\* entries it had just before, in the same order, and a failed probe leaves
\* the status of every entry but the probed one as it was.
C18_NoLostUpdate ==
  [][ (now' = now /\ last'.op = "connectResponse") =>
        /\ Len(vehicles') = Len(vehicles)
        /\ \A i \in 1..Len(vehicles) :
             /\ vehicles'[i].id = vehicles[i].id
             /\ (~last'.ok /\ vehicles[i].id # last'.id) =>
                  vehicles'[i].status = vehicles[i].status
        /\ stVehicles' = Some(vehicles')
    ]_vars

\* C19: whenever the active pointer is present, the registry has an entry
\* with the id of the active vehicle.
C19_ActiveIsRegistered ==
  activeVehicle # None =>
     \E i \in 1..Len(vehicles) : vehicles[i].id = activeVehicle[1].id

\* C20: a registry entry has status 'connected' only if it is the active
\* vehicle.
C20_ConnectedIsActive ==
  \A i \in 1..Len(vehicles) :
     vehicles[i].status = "connected" =>
        (activeVehicle # None /\ activeVehicle[1].id = vehicles[i].id)
====
